---- MODULE Spec2Model ----
(***************************************************************************)
(* Pair-trading research core of algo-trading-bot: the Backtest Engine     *)
(* (backtesting/engine.py), the volatility sizer (analytics/risk.py), the  *)
(* Signal Generator and Pair Discovery (strategies/statarb.py) and the     *)
(* Grid-Search Optimizer (analytics/optimizer.py), and the Scheduler of    *)
(* the live mode (execution/scheduler.py).                                 *)
(*                                                                         *)
(* Floats are fixed-point integers.  Sizes are counted in 1/SizeScale,     *)
(* returns and cost rates in 1/RetScale, so a sized return (size * return) *)
(* is counted in 1/Unit with Unit = SizeScale * RetScale.  A pandas value  *)
(* that is missing (NaN) is the integer NaN, which no quantity of the      *)
(* model can take.  Dates are the row numbers 1..T of the price matrix.    *)
(***************************************************************************)
EXTENDS Integers, Sequences, FiniteSets, TLC

VARIABLES
    \* ---- Backtester.run_backtest: arguments and pandas inputs
    signals,          \* signals_df['signal_raw'], one raw signal per date
    pair_info,        \* [y, x, hedge_ratio]
    data,             \* price matrix: symbol -> prices by date
    vol_y,            \* calculate_volatility(data[y], 20), by date
    rolling_mean,     \* spread_ret.rolling(60).mean(), by date
    rolling_var,      \* spread_ret.rolling(60).var(), by date
    \* ---- Backtester.run_backtest: locals
    pc,               \* position in run_backtest
    positions,        \* latched positions; lagged after line 167
    position_sizes,   \* sizing multiplier; lagged after line 168
    final_positions,  \* positions * position_sizes
    total_costs,      \* comm_costs + spread_costs
    net_ret,          \* strategy_ret - total_costs
    equity,           \* (1 + net_ret).cumprod()
    trades_log,       \* the trade ledger
    \* ---- two calls of run_backtest over one price matrix
    alt_signals,      \* the signals_df['signal_raw'] of the second call
    results,          \* call -> the dictionary it returned
    \* ---- Optimizer.run_grid_search
    param_grid,       \* [window, entry_z, exit_z]: the lists of values
    opt_pc,           \* position in run_grid_search
    combo_idx,        \* combinations the loop has gone through
    grid_results,     \* results: the rows appended so far
    table,            \* the DataFrame returned
    logged,           \* logger.error was called
    \* ---- the Backtester instance
    backtester,       \* [transaction_cost, spread_pct] of self
    \* ---- StatArbStrategy
    strategy,         \* [rolling_window, z_entry_threshold, z_exit_threshold]
                      \* of self, the thresholds in 1/ZScale
    df_zscore,        \* df['zscore'] of generate_signals
    strat_pc,         \* position in the method of the strategy that runs
    keys,             \* self.data.columns, in their order
    fetched,          \* what DataManager.fetch_data returns when called
    stats,            \* (i, j) -> what the Statistics Module finds for it
    scan_i,           \* find_cointegrated_pairs: i of the loop
    scan_j,           \* find_cointegrated_pairs: j of the loop
    pairs,            \* find_cointegrated_pairs: the list pairs
    cointegrated_pairs, \* self.cointegrated_pairs
    evaluated,        \* the (i, j) handed to check_cointegration so far
    \* ---- Scheduler
    running,          \* self.running
    thread,           \* self.thread: 0 for None, else the Thread object
    sched_pairs,      \* self.pairs
    trader,           \* self.trader: "None" or the executor
    loop_pc,          \* Thread object -> position of its _run_loop
    caller_pc,        \* calling thread -> position in start() or stop()
    join_target,      \* calling thread -> the Thread object it joins
    scans,            \* calls of _job so far
    orders,           \* the calls of trader.submit_order, in their order
    sched_log         \* warnings logged and errors raised by the Scheduler

btInputs == <<signals, pair_info, data, vol_y, rolling_mean, rolling_var>>
btLocals == <<pc, positions, position_sizes, final_positions, total_costs,
              net_ret, equity, trades_log>>
callVars == <<alt_signals, results>>
gridVars == <<param_grid, opt_pc, combo_idx, grid_results, table, logged>>
genVars == <<strategy, df_zscore>>
scanVars == <<keys, fetched, stats, scan_i, scan_j, pairs, cointegrated_pairs,
              evaluated>>
stratVars == <<genVars, scanVars, strat_pc>>
schedVars == <<running, thread, sched_pairs, trader, loop_pc, caller_pc,
               join_target, scans, orders, sched_log>>
vars == <<btInputs, btLocals, callVars, gridVars, backtester, stratVars,
          schedVars>>

\* what the passes of one run leave alone
offRun == <<callVars, gridVars, backtester, stratVars, schedVars>>

----------------------------------------------------------------------------
(* Bounds of the model *)

\* longest signal series drawn exhaustively
MaxLen == 4
\* longest signal series of a pair of calls
MaxPairLen == 3
\* longest list of values of one grid parameter
MaxGridList == 2
\* number of market scenarios (rotations of the price and statistics cycles)
NumMarkets == 3
\* most columns of a price matrix that Pair Discovery scans
MaxSymbols == 4

----------------------------------------------------------------------------
(* Representation of floats *)

NaN == -99999
SizeScale == 4
RetScale == 2000
Unit == SizeScale * RetScale
\* z-scores and their thresholds are counted in 1/ZScale
ZScale == 10
\* the Sharpe ratio is counted in 1/SharpeScale
SharpeScale == 1000
\* no square root of the model exceeds it (its square is below 2^31)
IsqrtCap == 46340

IsNa(v) == v = NaN
Min(a, b) == IF a <= b THEN a ELSE b
Max(a, b) == IF a >= b THEN a ELSE b
Abs(a) == IF a < 0 THEN -a ELSE a

\* a pandas Series: one value per date, held as a sequence
Series(f) == f \o <<>>

\* Series.fillna(value)
Fillna(s, value) ==
    Series([t \in 1..Len(s) |-> IF IsNa(s[t]) THEN value ELSE s[t]])
\* Series.shift(1): the first date has no value
Shift1(s) == Series([t \in 1..Len(s) |-> IF t = 1 THEN NaN ELSE s[t - 1]])
\* Series.diff(): the first date has no value
Diff(s) ==
    Series([t \in 1..Len(s) |-> IF t = 1 THEN NaN ELSE s[t] - s[t - 1]])
\* Series.abs()
AbsSeries(s) ==
    Series([t \in 1..Len(s) |-> IF IsNa(s[t]) THEN NaN ELSE Abs(s[t])])
\* Series.pct_change(), in 1/RetScale
PctChange(p) ==
    Series([t \in 1..Len(p) |->
        IF t = 1 THEN NaN ELSE ((p[t] - p[t - 1]) * RetScale) \div p[t - 1]])

RECURSIVE SumSeq(_)
SumSeq(s) == IF s = <<>> THEN 0 ELSE Head(s) + SumSeq(Tail(s))

RECURSIVE SumSq(_)
SumSq(s) == IF s = <<>> THEN 0 ELSE Head(s) * Head(s) + SumSq(Tail(s))

Sign(a) == IF a < 0 THEN -1 ELSE IF a > 0 THEN 1 ELSE 0

\* the integer square root of n >= 0, rounded down, sought in lo..hi
RECURSIVE IsqrtIn(_, _, _)
IsqrtIn(n, lo, hi) ==
    IF lo >= hi THEN lo
    ELSE LET mid == (lo + hi + 1) \div 2
         IN IF mid * mid <= n THEN IsqrtIn(n, mid, hi)
            ELSE IsqrtIn(n, lo, mid - 1)

Isqrt(n) == IsqrtIn(n, 0, Min(n, IsqrtCap))

----------------------------------------------------------------------------
(* Backtester: cost settings (engine.py:10-13), in 1/RetScale *)

transaction_cost == 2
spread_pct == 1

\* the fields of a Backtester that run_backtest reads: one built with the
\* defaults (also optimizer.py:14) and one built with both rates 0
DefaultBacktester ==
    [transaction_cost |-> transaction_cost, spread_pct |-> spread_pct]
ZeroCostBacktester == [transaction_cost |-> 0, spread_pct |-> 0]
Backtesters == {DefaultBacktester, ZeroCostBacktester}

(* analytics/risk.py: calculate_target_position_size, volatility in 1/100 *)
target_vol == 15
max_leverage == 2

\* the weight without the cap of max_leverage
SizeUncapped(volatility) ==
    IF IsNa(volatility) \/ volatility <= 0
    THEN 0
    ELSE (target_vol * SizeScale) \div volatility

calculate_target_position_size(volatility) ==
    IF IsNa(volatility) \/ volatility <= 0
    THEN 0
    ELSE Min((target_vol * SizeScale) \div volatility, max_leverage * SizeScale)

----------------------------------------------------------------------------
(* run_backtest, lines 48-84: latch the raw signal into a position *)

RECURSIVE LatchFrom(_, _, _)
LatchFrom(sig, i, current_pos) ==
    IF i > Len(sig) THEN <<>>
    ELSE LET s == sig[i]
             cp == IF s = 1 THEN 1
                   ELSE IF s = -1 THEN -1
                   ELSE IF s = 0 THEN 0
                   ELSE current_pos
         IN IF IsNa(s)
            THEN <<cp>> \o LatchFrom(sig, i + 1, cp)
            ELSE <<s>> \o LatchFrom(sig, i + 1, s)

LatchHoldResets(sig) ==
    [t \in 1..Len(sig) |-> IF IsNa(sig[t]) THEN 0 ELSE sig[t]]

\* current_pos kept from a run that returned before
LatchCarriesOver(sig) ==
    LatchFrom(sig, 1, IF \E c \in DOMAIN results : results[c].returned
                      THEN 1 ELSE 0)

LatchPositions(sig) == LatchFrom(sig, 1, 0)

(* run_backtest, lines 136-146: the continuous Kelly estimate, in 1/SizeScale *)
KellySize(m, var) ==
    IF ~IsNa(var) /\ var > 0
    THEN IF IsNa(m) THEN 0
         ELSE Max(0, Min((m * SizeScale) \div var, 2 * SizeScale))
    ELSE 0

(* run_backtest, lines 131-164: the size of one date *)
FinalSize(v, m, var) ==
    LET vol_size == calculate_target_position_size(v)
        kelly_size == KellySize(m, var)
    IN IF kelly_size < 0 THEN 0 ELSE vol_size

SizeSeries(vol, mean, var) ==
    Series([t \in 1..Len(vol) |-> FinalSize(vol[t], mean[t], var[t])])

LagPositionsNone(pos) == pos

(* run_backtest, lines 166-168: lag by one day *)
LagPositions(pos) == Fillna(Shift1(pos), 0)
LagSizes(sizes) == Fillna(Shift1(sizes), SizeScale)

(* run_backtest, lines 31-32 and 90 *)
SpreadRet(d, pair) ==
    LET ret_y == Fillna(PctChange(d[pair.y]), 0)
        ret_x == Fillna(PctChange(d[pair.x]), 0)
    IN Series([t \in 1..Len(ret_y) |->
                    ret_y[t] - pair.hedge_ratio * ret_x[t]])

(* run_backtest, line 170 *)
FinalPositions(pos, sizes) ==
    Series([t \in 1..Len(pos) |-> pos[t] * sizes[t]])

\* costs that leave the spread penalty out
CostsCommissionOnly(self, fp) ==
    LET trades == Fillna(AbsSeries(Diff(fp)), 0)
    IN Series([t \in 1..Len(fp) |-> trades[t] * self.transaction_cost])

(* run_backtest, lines 175-185, in 1/Unit, for the Backtester self *)
CostsOf(self, fp) ==
    LET trades == Fillna(AbsSeries(Diff(fp)), 0)
    IN Series([t \in 1..Len(fp) |->
            trades[t] * self.transaction_cost + trades[t] * self.spread_pct])

\* the same for a Backtester built with the defaults
TotalCosts(fp) == CostsOf(DefaultBacktester, fp)

(* run_backtest, lines 172 and 187, in 1/Unit *)
NetRet(fp, spread_ret, costs) ==
    Series([t \in 1..Len(fp) |-> fp[t] * spread_ret[t] - costs[t]])

(* run_backtest, line 190, in 1/Unit *)
RECURSIVE CumProd(_, _, _)
CumProd(nr, i, prev) ==
    IF i > Len(nr) THEN <<>>
    ELSE LET e == (prev * (Unit + nr[i])) \div Unit
         IN <<e>> \o CumProd(nr, i + 1, e)

Equity(nr) == CumProd(nr, 1, Unit)

(* run_backtest, line 192: mean / std * 252**0.5 if std > 0, else 0.  The  *)
(* standard deviation (ddof = 1) has no value for one date and is 0 when  *)
(* all dates are equal; it is rounded up to a whole 1/Unit.                *)
Sqrt252 == 15875
SharpeRatio(nr) ==
    LET n == Len(nr)
        q == n * SumSq(nr) - SumSeq(nr) * SumSeq(nr)
        var == q \div (n * (n - 1))
        std == IF Isqrt(var) * Isqrt(var) = var THEN Isqrt(var)
               ELSE Isqrt(var) + 1
        mean == SumSeq(nr) \div n
    IN IF n >= 2 /\ q > 0 THEN (mean * Sqrt252) \div Max(std, 1) ELSE 0

----------------------------------------------------------------------------
(* run_backtest, lines 195-267: trade extraction *)

\* the dictionary appended to trades_log (lines 224-231, 249-256, 260-267)
TradeRecord(st, exit) ==
    [Entry |-> st.entry_date,
     Exit |-> exit,
     Type |-> IF st.entry_dir = 1 THEN "Long" ELSE "Short",
     PnL |-> SumSeq(st.trade_pnl_series),
     Duration_Days |-> exit - st.entry_date,
     Avg_Size |-> SumSeq(st.avg_size) \div Len(st.avg_size)]

\* lines 196-200
ExtractInit ==
    [trades_log |-> <<>>, is_open |-> FALSE, entry_date |-> 0, entry_dir |-> 0,
     trade_pnl_series |-> <<>>, avg_size |-> <<>>]

\* a flip taken for a continued holding
ExtractStepFlipHolds(st, date, pos_sign, nr, fp) ==
    IF pos_sign # 0 /\ ~st.is_open
    THEN [st EXCEPT !.is_open = TRUE,
                    !.entry_date = date,
                    !.entry_dir = pos_sign,
                    !.trade_pnl_series = <<nr[date]>>,
                    !.avg_size = <<Abs(fp[date])>>]
    ELSE IF pos_sign # 0 /\ st.is_open
    THEN [st EXCEPT !.trade_pnl_series = Append(@, nr[date]),
                    !.avg_size = Append(@, Abs(fp[date]))]
    ELSE IF pos_sign = 0 /\ st.is_open
    THEN [st EXCEPT !.is_open = FALSE,
                    !.trades_log = Append(@, TradeRecord(st, date))]
    ELSE st

\* a flip that closes the old trade the day before ("close yesterday, open today")
ExtractStepCloseYesterday(st, date, pos_sign, nr, fp) ==
    IF pos_sign # 0 /\ ~st.is_open
    THEN [st EXCEPT !.is_open = TRUE,
                    !.entry_date = date,
                    !.entry_dir = pos_sign,
                    !.trade_pnl_series = <<nr[date]>>,
                    !.avg_size = <<Abs(fp[date])>>]
    ELSE IF pos_sign # 0 /\ st.is_open
    THEN IF pos_sign # st.entry_dir
         THEN [st EXCEPT !.trades_log = Append(@, TradeRecord(st, date - 1)),
                         !.entry_date = date,
                         !.entry_dir = pos_sign,
                         !.trade_pnl_series = <<nr[date]>>,
                         !.avg_size = <<Abs(fp[date])>>]
         ELSE [st EXCEPT !.trade_pnl_series = Append(@, nr[date]),
                         !.avg_size = Append(@, Abs(fp[date]))]
    ELSE IF pos_sign = 0 /\ st.is_open
    THEN [st EXCEPT !.is_open = FALSE,
                    !.trades_log = Append(@, TradeRecord(st, date))]
    ELSE st

\* a close that counts the net return of the exit date in the trade
ExtractStepCountsExitDate(st, date, pos_sign, nr, fp) ==
    IF pos_sign # 0 /\ ~st.is_open
    THEN [st EXCEPT !.is_open = TRUE,
                    !.entry_date = date,
                    !.entry_dir = pos_sign,
                    !.trade_pnl_series = <<nr[date]>>,
                    !.avg_size = <<Abs(fp[date])>>]
    ELSE IF pos_sign # 0 /\ st.is_open
    THEN IF pos_sign # st.entry_dir
         THEN [st EXCEPT !.trades_log = Append(@, TradeRecord(st, date)),
                         !.entry_date = date,
                         !.entry_dir = pos_sign,
                         !.trade_pnl_series = <<nr[date]>>,
                         !.avg_size = <<Abs(fp[date])>>]
         ELSE [st EXCEPT !.trade_pnl_series = Append(@, nr[date]),
                         !.avg_size = Append(@, Abs(fp[date]))]
    ELSE IF pos_sign = 0 /\ st.is_open
    THEN [st EXCEPT !.is_open = FALSE,
                    !.trades_log = Append(@,
                        TradeRecord([st EXCEPT !.trade_pnl_series =
                                        Append(@, nr[date])], date))]
    ELSE st

\* one turn of the loop of lines 206-256
ExtractStep(st, date, pos_sign, nr, fp) ==
    IF pos_sign # 0 /\ ~st.is_open
    THEN [st EXCEPT !.is_open = TRUE,
                    !.entry_date = date,
                    !.entry_dir = pos_sign,
                    !.trade_pnl_series = <<nr[date]>>,
                    !.avg_size = <<Abs(fp[date])>>]
    ELSE IF pos_sign # 0 /\ st.is_open
    THEN IF pos_sign # st.entry_dir
         THEN [st EXCEPT !.trades_log = Append(@, TradeRecord(st, date)),
                         !.entry_date = date,
                         !.entry_dir = pos_sign,
                         !.trade_pnl_series = <<nr[date]>>,
                         !.avg_size = <<Abs(fp[date])>>]
         ELSE [st EXCEPT !.trade_pnl_series = Append(@, nr[date]),
                         !.avg_size = Append(@, Abs(fp[date]))]
    ELSE IF pos_sign = 0 /\ st.is_open
    THEN [st EXCEPT !.is_open = FALSE,
                    !.trades_log = Append(@, TradeRecord(st, date))]
    ELSE st

RECURSIVE ExtractLoop(_, _, _, _, _)
ExtractLoop(st, date, pos, nr, fp) ==
    IF date > Len(pos) THEN st
    ELSE ExtractLoop(ExtractStep(st, date, pos[date], nr, fp),
                     date + 1, pos, nr, fp)

LeaveOpenAtEnd(st, last) == st.trades_log

\* lines 258-267: a trade still open after the last date
CloseAtEnd(st, last) ==
    IF st.is_open THEN Append(st.trades_log, TradeRecord(st, last))
    ELSE st.trades_log

ExtractTrades(pos, nr, fp) ==
    CloseAtEnd(ExtractLoop(ExtractInit, 1, pos, nr, fp), Len(pos))

\* run_backtest as one call (lines 19-275) on the Backtester self: the passes
\* above in sequence and the dictionary of lines 269-275, with the locals the
\* cost model names
RunBacktestOn(self, sig, pair, d, vol, mean, var) ==
    LET pos == LagPositions(LatchPositions(sig))
        sizes == LagSizes(SizeSeries(vol, mean, var))
        fp == FinalPositions(pos, sizes)
        costs == CostsOf(self, fp)
        nr == NetRet(fp, SpreadRet(d, pair), costs)
        eq == Equity(nr)
    IN [Total_Return |-> eq[Len(eq)] - Unit,
        Sharpe_Ratio |-> SharpeRatio(nr),
        Equity_Curve |-> eq,
        Positions |-> pos,
        Trades |-> ExtractTrades(pos, nr, fp),
        final_positions |-> fp,
        total_costs |-> costs,
        net_ret |-> nr]

\* the call on a Backtester built with the defaults
RunBacktest(sig, pair, d, vol, mean, var) ==
    RunBacktestOn(DefaultBacktester, sig, pair, d, vol, mean, var)

----------------------------------------------------------------------------
(* analytics/statistics.py *)

\* calculate_spread (lines 47-51), also optimizer.py line 39
calculate_spread(series_y, series_x, hedge_ratio) ==
    Series([t \in 1..Len(series_y) |-> series_y[t] - hedge_ratio * series_x[t]])

\* Series.rolling(window) raises ValueError for a negative window
RollingRaises(window) == window < 0

\* the z-score of date t over the trailing window dates, in 1/ZScale: no
\* value before the window is full, for a window of fewer than two dates
\* (no standard deviation) and when the trailing deviation is 0 (0 / 0)
ZscoreAt(series, t, window) ==
    IF window < 2 \/ t < window THEN NaN
    ELSE LET xs == SubSeq(series, t - window + 1, t)
             d == window * series[t] - SumSeq(xs)
             q == window * SumSq(xs) - SumSeq(xs) * SumSeq(xs)
         IN IF q = 0 THEN NaN
            ELSE Sign(d) * Isqrt((ZScale * ZScale * d * d * (window - 1))
                                    \div (window * q))

\* calculate_zscore (lines 36-45)
calculate_zscore(series, window) ==
    Series([t \in 1..Len(series) |-> ZscoreAt(series, t, window)])

----------------------------------------------------------------------------
(* strategies/statarb.py: StatArbStrategy.generate_signals (lines 84-117)  *)
(* of a strategy whose rolling_window, z_entry_threshold and               *)
(* z_exit_threshold are the three last arguments                           *)

\* every date that enters nothing is told to flatten
SignalRawNoHold(z, z_entry_threshold, z_exit_threshold) ==
    LET long_entry == ~IsNa(z) /\ z < -z_entry_threshold
        short_entry == ~IsNa(z) /\ z > z_entry_threshold
    IN IF long_entry THEN 1 ELSE IF short_entry THEN -1 ELSE 0

\* lines 108-115: the three assignments in their order; a comparison with a
\* z-score that has no value is false
SignalRawAt(z, z_entry_threshold, z_exit_threshold) ==
    LET long_entry == ~IsNa(z) /\ z < -z_entry_threshold
        short_entry == ~IsNa(z) /\ z > z_entry_threshold
        exit_cond == ~IsNa(z) /\ Abs(z) < z_exit_threshold
        s1 == IF long_entry THEN 1 ELSE NaN
        s2 == IF short_entry THEN -1 ELSE s1
    IN IF exit_cond THEN 0 ELSE s2

generate_signals(d, pair, rolling_window, z_entry_threshold, z_exit_threshold) ==
    LET spread == calculate_spread(d[pair.y], d[pair.x], pair.hedge_ratio)
        zscore == calculate_zscore(spread, rolling_window)
    IN [spread |-> spread,
        zscore |-> zscore,
        signal_raw |-> Series([t \in 1..Len(spread) |->
            SignalRawAt(zscore[t], z_entry_threshold, z_exit_threshold)])]

----------------------------------------------------------------------------
(* analytics/optimizer.py: Optimizer.run_grid_search *)

\* lines 25-27: itertools.product of the value lists, the first key slowest
Combinations(grid) ==
    LET nw == Len(grid.window)
        ne == Len(grid.entry_z)
        nx == Len(grid.exit_z)
    IN [k \in 1..(nw * ne * nx) |->
            [window |-> grid.window[((k - 1) \div (ne * nx)) + 1],
             entry_z |-> grid.entry_z[(((k - 1) \div nx) % ne) + 1],
             exit_z |-> grid.exit_z[((k - 1) % nx) + 1]]]

\* a z-score without value compared like a number
GridSignalAtNaNCompares(z, params) ==
    LET long_entry == z < -params.entry_z
        short_entry == z > params.entry_z
        s1 == IF long_entry THEN 1 ELSE 0
    IN IF short_entry THEN -1 ELSE s1

\* signal_raw built as generate_signals builds it, exit band included
GridSignalAtWithExit(z, params) ==
    SignalRawAt(z, params.entry_z, params.exit_z)

\* lines 54-72: signal_raw as the optimizer builds it
GridSignalAt(z, params) ==
    LET long_entry == ~IsNa(z) /\ z < -params.entry_z
        short_entry == ~IsNa(z) /\ z > params.entry_z
        s1 == IF long_entry THEN 1 ELSE 0
    IN IF short_entry THEN -1 ELSE s1

GridSignals(spread, params) ==
    LET zscore == calculate_zscore(spread, params.window)
    IN Series([t \in 1..Len(spread) |-> GridSignalAt(zscore[t], params)])

\* lines 77-82
GridRow(params, bt_res) ==
    [window |-> params.window, entry_z |-> params.entry_z,
     exit_z |-> params.exit_z,
     Sharpe |-> bt_res.Sharpe_Ratio,
     Return |-> bt_res.Total_Return,
     Trades |-> Len(bt_res.Trades)]

\* the rows left in the order of the loop
SortNone(rows) == rows

\* line 85: sort_values(by='Sharpe', ascending=False); rows of equal Sharpe
\* keep their order
RECURSIVE InsertBySharpe(_, _)
InsertBySharpe(row, sorted) ==
    IF sorted = <<>> THEN <<row>>
    ELSE IF Head(sorted).Sharpe >= row.Sharpe
         THEN <<Head(sorted)>> \o InsertBySharpe(row, Tail(sorted))
         ELSE <<row>> \o sorted

RECURSIVE SortBySharpe(_)
SortBySharpe(rows) ==
    IF rows = <<>> THEN <<>>
    ELSE InsertBySharpe(rows[Len(rows)],
                        SortBySharpe(SubSeq(rows, 1, Len(rows) - 1)))

----------------------------------------------------------------------------
(* The inputs of a run *)

Raw == {1, -1, 0, NaN}

\* the raw sequences the specification's section 8 names
SpecExamples == { <<1, NaN, NaN, 0, -1, NaN, 0>>, <<1, 1, -1, -1, 0>> }

SignalSeries == UNION {[1..n -> Raw] : n \in 1..MaxLen} \cup SpecExamples

Markets == 0..(NumMarkets - 1)
HedgeRatios == {1, 2}

PriceCycleY == <<100, 102, 99, 101, 104, 100, 97>>
PriceCycleX == <<50, 51, 50, 49, 50, 52>>
\* trailing annualized volatility of the Y leg, in 1/100
VolCycle == <<30, 60, 15, 15, 5, 0, NaN>>
\* trailing mean and variance of the spread return, in one common unit
DriftCycle == <<[m |-> 2, v |-> 4], [m |-> -3, v |-> 4], [m |-> 0, v |-> 0],
                [m |-> NaN, v |-> NaN], [m |-> 9, v |-> 4], [m |-> -1, v |-> 0]>>

Cyc(c, k) == c[(k % Len(c)) + 1]

\* the price matrix of market mk over n dates
MarketData(mk, n) ==
    [sym \in {"Y", "X"} |->
        Series([t \in 1..n |-> IF sym = "Y" THEN Cyc(PriceCycleY, t + mk)
                               ELSE Cyc(PriceCycleX, t + 2 * mk)])]

\* rolling statistics have no value on the first date
MarketVol(mk, n) ==
    Series([t \in 1..n |-> IF t = 1 THEN NaN ELSE Cyc(VolCycle, t + mk)])
MarketMean(mk, n) ==
    Series([t \in 1..n |-> IF t = 1 THEN NaN ELSE Cyc(DriftCycle, t + 3 * mk).m])
MarketVar(mk, n) ==
    Series([t \in 1..n |-> IF t = 1 THEN NaN ELSE Cyc(DriftCycle, t + 3 * mk).v])

\* the variables of the parts of the program that a specification leaves out
RunNotStarted ==
    /\ positions = <<>>
    /\ position_sizes = <<>>
    /\ final_positions = <<>>
    /\ total_costs = <<>>
    /\ net_ret = <<>>
    /\ equity = <<>>
    /\ trades_log = <<>>
NoCalls == alt_signals = <<>> /\ results = <<>>
NoGridSearch ==
    /\ param_grid = <<>>
    /\ opt_pc = "off"
    /\ combo_idx = 0
    /\ grid_results = <<>>
    /\ table = <<>>
    /\ logged = FALSE
NoScan ==
    /\ keys = <<>>
    /\ fetched = <<>>
    /\ stats = <<>>
    /\ scan_i = 0
    /\ scan_j = 0
    /\ pairs = <<>>
    /\ cointegrated_pairs = <<>>
    /\ evaluated = <<>>
NoScheduler ==
    /\ running = FALSE
    /\ thread = 0
    /\ sched_pairs = <<>>
    /\ trader = "None"
    /\ loop_pc = <<>>
    /\ caller_pc = <<>>
    /\ join_target = <<>>
    /\ scans = 0
    /\ orders = <<>>
    /\ sched_log = {}
NoStrategy ==
    /\ strategy = <<>>
    /\ df_zscore = <<>>
    /\ strat_pc = "off"
    /\ NoScan

----------------------------------------------------------------------------
(* Backtester.run_backtest as a state machine over its four passes *)

Init ==
    /\ signals \in SignalSeries
    /\ \E mk \in Markets :
          /\ data = MarketData(mk, Len(signals))
          /\ vol_y = MarketVol(mk, Len(signals))
          /\ rolling_mean = MarketMean(mk, Len(signals))
          /\ rolling_var = MarketVar(mk, Len(signals))
    /\ \E h \in HedgeRatios : pair_info = [y |-> "Y", x |-> "X", hedge_ratio |-> h]
    /\ backtester \in Backtesters
    /\ pc = "start"
    /\ RunNotStarted
    /\ NoCalls
    /\ NoScheduler
    /\ NoGridSearch
    /\ NoStrategy

\* lines 42-84 without the copy of line 42: the frame handed in is latched
DeterminePositionsInPlace ==
    /\ pc = "start"
    /\ positions' = LatchPositions(signals)
    /\ signals' = positions'
    /\ pc' = "latched"
    /\ UNCHANGED <<pair_info, data, vol_y, rolling_mean, rolling_var,
                   position_sizes, final_positions, total_costs,
                   net_ret, equity, trades_log, offRun>>

\* lines 42-84
DeterminePositions ==
    /\ pc = "start"
    /\ positions' = LatchPositions(signals)
    /\ pc' = "latched"
    /\ UNCHANGED <<btInputs, position_sizes, final_positions, total_costs,
                   net_ret, equity, trades_log, offRun>>

\* lines 125-164
ApplySizing ==
    /\ pc = "latched"
    /\ position_sizes' = SizeSeries(vol_y, rolling_mean, rolling_var)
    /\ pc' = "sized"
    /\ UNCHANGED <<btInputs, positions, final_positions, total_costs,
                   net_ret, equity, trades_log, offRun>>

\* lines 166-190
LagAndCost ==
    /\ pc = "sized"
    /\ positions' = LagPositions(positions)
    /\ position_sizes' = LagSizes(position_sizes)
    /\ final_positions' = FinalPositions(positions', position_sizes')
    /\ total_costs' = CostsOf(backtester, final_positions')
    /\ net_ret' = NetRet(final_positions', SpreadRet(data, pair_info), total_costs')
    /\ equity' = Equity(net_ret')
    /\ pc' = "lagged"
    /\ UNCHANGED <<btInputs, trades_log, offRun>>

\* lines 194-275
ExtractAndReturn ==
    /\ pc = "lagged"
    /\ trades_log' = ExtractTrades(positions, net_ret, final_positions)
    /\ pc' = "done"
    /\ UNCHANGED <<btInputs, positions, position_sizes, final_positions,
                   total_costs, net_ret, equity, offRun>>

Next == DeterminePositions \/ ApplySizing \/ LagAndCost \/ ExtractAndReturn

Spec == Init /\ [][Next]_vars

----------------------------------------------------------------------------
(* Two calls of run_backtest on one Backtester, over the same pair and the *)
(* same price matrix, with two raw signal series of the same dates          *)

Calls == {"first", "second"}
NotRun == [returned |-> FALSE]

SignalsOf(c) == IF c = "first" THEN signals ELSE alt_signals

InitTwoCalls ==
    /\ \E n \in 1..MaxPairLen :
          /\ signals \in [1..n -> Raw]
          /\ alt_signals \in [1..n -> Raw]
    /\ \E mk \in {0, NumMarkets - 1} :
          /\ data = MarketData(mk, Len(signals))
          /\ vol_y = MarketVol(mk, Len(signals))
          /\ rolling_mean = MarketMean(mk, Len(signals))
          /\ rolling_var = MarketVar(mk, Len(signals))
          /\ backtester = IF mk = 0 THEN DefaultBacktester
                          ELSE ZeroCostBacktester
    /\ pair_info = [y |-> "Y", x |-> "X", hedge_ratio |-> 1]
    /\ results = [c \in Calls |-> NotRun]
    /\ pc = "idle"
    /\ RunNotStarted
    /\ NoGridSearch
    /\ NoStrategy
    /\ NoScheduler

\* one whole call of run_backtest; the calls may come in either order
CallRunBacktest(c) ==
    /\ ~results[c].returned
    /\ results' = [results EXCEPT ![c] =
            [returned |-> TRUE,
             value |-> RunBacktestOn(backtester, SignalsOf(c), pair_info, data,
                                     vol_y, rolling_mean, rolling_var)]]
    /\ UNCHANGED <<btInputs, btLocals, alt_signals, gridVars, backtester,
                   stratVars, schedVars>>

NextTwoCalls == \E c \in Calls : CallRunBacktest(c)

SpecTwoCalls == InitTwoCalls /\ [][NextTwoCalls]_vars

----------------------------------------------------------------------------
(* Optimizer.run_grid_search(pair_info, param_grid) of an Optimizer over   *)
(* data, as a state machine: the entry, one turn of the loop per           *)
(* combination, the sort and return                                        *)

\* sequences over vals of length at most n
SeqsUpTo(vals, n) == UNION {[1..k -> vals] : k \in 0..n}

\* a window that fits, one longer than the history, one pandas rejects
WindowValues == {2, 3, 9, -1}
EntryValues == <<9, 6, 12, 3>>
ExitValues == <<4, 8, 0, 12>>
GridDates == MaxLen + 2

Grids ==
    {[window |-> w, entry_z |-> SubSeq(EntryValues, 1, ne),
      exit_z |-> SubSeq(ExitValues, 1, nx)] :
        w \in SeqsUpTo(WindowValues, MaxGridList),
        ne \in 0..MaxGridList, nx \in 0..MaxGridList}

\* the price matrix without the column of sym
DropColumn(d, sym) == [c \in DOMAIN d \ {sym} |-> d[c]]

InitGrid ==
    /\ param_grid \in Grids
    /\ \E mk \in Markets :
          /\ data \in {MarketData(mk, GridDates)}
                    \cup (IF mk = 0
                          THEN {DropColumn(MarketData(mk, GridDates), "X"),
                                DropColumn(MarketData(mk, GridDates), "Y")}
                          ELSE {})
          /\ vol_y = MarketVol(mk, GridDates)
          /\ rolling_mean = MarketMean(mk, GridDates)
          /\ rolling_var = MarketVar(mk, GridDates)
    /\ \E h \in HedgeRatios : pair_info = [y |-> "Y", x |-> "X", hedge_ratio |-> h]
    /\ opt_pc = "idle"
    /\ combo_idx = 0
    /\ grid_results = <<>>
    /\ table = <<>>
    /\ logged = FALSE
    /\ signals = <<>>
    /\ backtester = DefaultBacktester
    /\ pc = "idle"
    /\ RunNotStarted
    /\ NoCalls
    /\ NoScheduler
    /\ NoStrategy

HasColumns == pair_info.y \in DOMAIN data /\ pair_info.x \in DOMAIN data

gridFrame == <<pair_info, data, vol_y, rolling_mean, rolling_var, btLocals,
               callVars, param_grid, backtester, stratVars, schedVars>>

\* lines 25-41, the symbols present
StartGridSearch ==
    /\ opt_pc = "idle"
    /\ HasColumns
    /\ opt_pc' = "loop"
    /\ UNCHANGED <<gridFrame, signals, combo_idx, grid_results, table, logged>>

\* a symbol missing, returned without the logger being called
MissingDataSilent ==
    /\ opt_pc = "idle"
    /\ ~HasColumns
    /\ table' = <<>>
    /\ opt_pc' = "returned"
    /\ UNCHANGED <<gridFrame, signals, combo_idx, grid_results, logged>>

\* lines 35-37, a symbol missing
MissingData ==
    /\ opt_pc = "idle"
    /\ ~HasColumns
    /\ logged' = TRUE
    /\ table' = <<>>
    /\ opt_pc' = "returned"
    /\ UNCHANGED <<gridFrame, signals, combo_idx, grid_results>>

NextParams == Combinations(param_grid)[combo_idx + 1]
GridSpread ==
    calculate_spread(data[pair_info.y], data[pair_info.x], pair_info.hedge_ratio)

\* lines 43-82: one combination
EvaluateCombination ==
    /\ opt_pc = "loop"
    /\ combo_idx < Len(Combinations(param_grid))
    /\ ~RollingRaises(NextParams.window)
    /\ signals' = GridSignals(GridSpread, NextParams)
    /\ grid_results' = Append(grid_results,
            GridRow(NextParams,
                    RunBacktest(signals', pair_info, data,
                                vol_y, rolling_mean, rolling_var)))
    /\ combo_idx' = combo_idx + 1
    /\ UNCHANGED <<gridFrame, opt_pc, table, logged>>

\* line 47 raises: nothing in run_grid_search catches it, the call ends
CombinationRaises ==
    /\ opt_pc = "loop"
    /\ combo_idx < Len(Combinations(param_grid))
    /\ RollingRaises(NextParams.window)
    /\ opt_pc' = "raised"
    /\ UNCHANGED <<gridFrame, signals, combo_idx, grid_results, table, logged>>

\* lines 84-86
ReturnTable ==
    /\ opt_pc = "loop"
    /\ combo_idx = Len(Combinations(param_grid))
    /\ grid_results # <<>>
    /\ table' = SortBySharpe(grid_results)
    /\ opt_pc' = "returned"
    /\ UNCHANGED <<gridFrame, signals, combo_idx, grid_results, logged>>

\* line 85 on a DataFrame built from no rows: it has no column 'Sharpe' and
\* sort_values raises KeyError
SortRaises ==
    /\ opt_pc = "loop"
    /\ combo_idx = Len(Combinations(param_grid))
    /\ grid_results = <<>>
    /\ opt_pc' = "raised"
    /\ UNCHANGED <<gridFrame, signals, combo_idx, grid_results, table, logged>>

NextGrid ==
    \/ StartGridSearch
    \/ MissingData
    \/ EvaluateCombination
    \/ CombinationRaises
    \/ ReturnTable
    \/ SortRaises

SpecGrid == InitGrid /\ [][NextGrid]_vars

----------------------------------------------------------------------------
(* StatArbStrategy.generate_signals(pair_info) of a strategy over data *)

\* windows of one date, that fit, and longer than the history
StrategyWindows == {1, 2, 3, 9}
EntryThresholds == {3, 6, 9, 12}
ExitThresholds == {0, 5, 8, 12}
Strategies ==
    [rolling_window : StrategyWindows, z_entry_threshold : EntryThresholds,
     z_exit_threshold : ExitThresholds]

InitSignals ==
    /\ strategy \in Strategies
    /\ \E mk \in Markets :
          /\ data = MarketData(mk, GridDates)
          /\ vol_y = MarketVol(mk, GridDates)
          /\ rolling_mean = MarketMean(mk, GridDates)
          /\ rolling_var = MarketVar(mk, GridDates)
    /\ \E h \in HedgeRatios : pair_info = [y |-> "Y", x |-> "X", hedge_ratio |-> h]
    /\ strat_pc = "idle"
    /\ df_zscore = <<>>
    /\ signals = <<>>
    /\ backtester = DefaultBacktester
    /\ pc = "idle"
    /\ RunNotStarted
    /\ NoCalls
    /\ NoScheduler
    /\ NoGridSearch
    /\ NoScan

\* lines 89-117: the frame returned, its columns zscore and signal_raw
GenerateSignals ==
    /\ strat_pc = "idle"
    /\ LET df == generate_signals(data, pair_info, strategy.rolling_window,
                                  strategy.z_entry_threshold,
                                  strategy.z_exit_threshold)
       IN /\ df_zscore' = df.zscore
          /\ signals' = df.signal_raw
    /\ strat_pc' = "generated"
    /\ UNCHANGED <<pair_info, data, vol_y, rolling_mean, rolling_var, btLocals,
                   callVars, gridVars, backtester, strategy, scanVars,
                   schedVars>>

NextSignals == GenerateSignals

SpecSignals == InitSignals /\ [][NextSignals]_vars

----------------------------------------------------------------------------
(* StatArbStrategy.find_cointegrated_pairs.  What statsmodels finds for a   *)
(* pair of columns (the p-value of coint, the slopes of the two             *)
(* regressions) is data of the run: stats names it for every (i, j).        *)

Inf == 99999

\* StatArbStrategy.__init__, lines 34-35
min_half_life == 1
max_half_life == 42

Tickers == <<"AAPL", "MSFT", "GOOG", "AMZN", "META", "NVDA">>
ScanRows == 3

\* pd.DataFrame(): no column, no row
EmptyFrame == [keys |-> <<>>, data |-> <<>>]

\* a price matrix of the first n tickers over ScanRows dates
Frame(n) ==
    [keys |-> SubSeq(Tickers, 1, n),
     data |-> [sym \in {Tickers[k] : k \in 1..n} |->
                LET k == CHOOSE c \in 1..n : Tickers[c] = sym
                IN Series([t \in 1..ScanRows |-> Cyc(PriceCycleY, t + k)])]]

\* DataFrame.empty: an axis of length 0
IsEmpty(d) == DOMAIN d = {} \/ \A sym \in DOMAIN d : Len(d[sym]) = 0

\* what the two regressions and the test give for a pair of columns: the
\* p-value in 1/100, the hedge ratio, the slope beta of the spread change on
\* the lagged spread in 1/100 and, for a negative slope, the value of
\* -log(2) / log(1 + beta) in days (no value for a slope below -1)
StatCycle ==
    <<[p_value |-> 1, hedge_ratio |-> 2, beta |-> -3, hl |-> 20],
      [p_value |-> 1, hedge_ratio |-> 1, beta |-> -100, hl |-> 0],
      [p_value |-> 4, hedge_ratio |-> 1, beta |-> 2, hl |-> NaN],
      [p_value |-> 2, hedge_ratio |-> 1, beta |-> -2, hl |-> 42],
      [p_value |-> 5, hedge_ratio |-> 2, beta |-> -50, hl |-> 1],
      [p_value |-> 3, hedge_ratio |-> 2, beta |-> -1, hl |-> 43],
      [p_value |-> 0, hedge_ratio |-> 1, beta |-> -50, hl |-> 1],
      [p_value |-> 30, hedge_ratio |-> 1, beta |-> -3, hl |-> 20],
      [p_value |-> 2, hedge_ratio |-> 2, beta |-> -150, hl |-> NaN],
      [p_value |-> 60, hedge_ratio |-> 1, beta |-> 0, hl |-> NaN],
      [p_value |-> 4, hedge_ratio |-> 2, beta |-> 0, hl |-> NaN]>>
Scenarios == 0..(Len(StatCycle) - 1)

ColumnPairs(n) == {ij \in (1..n) \X (1..n) : ij[1] < ij[2]}
StatsOf(sc, n) ==
    [ij \in ColumnPairs(n) |-> Cyc(StatCycle, sc + 2 * ij[1] + 3 * ij[2])]

\* statistics.py, check_cointegration (lines 30-34) on what was found
check_cointegration(found) ==
    [is_coint |-> found.p_value < 5,
     p_value |-> found.p_value,
     hedge_ratio |-> found.hedge_ratio]

\* statistics.py, calculate_half_life (lines 69-78) on what was found
calculate_half_life(found) == IF found.beta >= 0 THEN Inf ELSE found.hl

\* a half-life that is only held against the lower bound
HalfLifeAboveMin(half_life) == ~IsNa(half_life) /\ min_half_life <= half_life

\* line 69; a comparison with a half-life that has no value is false
HalfLifeInRange(half_life) ==
    /\ ~IsNa(half_life)
    /\ min_half_life <= half_life
    /\ half_life <= max_half_life

\* lines 70-76
PairInfo(i, j, coint, half_life) ==
    [y |-> keys[j], x |-> keys[i], p_value |-> coint.p_value,
     hedge_ratio |-> coint.hedge_ratio, half_life |-> half_life]

\* a list a scan before this one left in self.cointegrated_pairs
StalePairs ==
    <<[y |-> "MSFT", x |-> "AAPL", p_value |-> 1, hedge_ratio |-> 2,
       half_life |-> 20]>>

InitScan ==
    /\ \E n \in 0..MaxSymbols, sc \in Scenarios :
          /\ fetched = IF n = 0 THEN EmptyFrame ELSE Frame(n)
          /\ \/ keys = <<>> /\ data = <<>>
             \/ n > 0 /\ keys = Frame(n).keys /\ data = Frame(n).data
          /\ stats = StatsOf(sc, n)
    /\ cointegrated_pairs \in {<<>>, StalePairs}
    /\ strat_pc = "idle"
    /\ scan_i = 0
    /\ scan_j = 0
    /\ pairs = <<>>
    /\ evaluated = <<>>
    /\ logged = FALSE
    /\ strategy \in {st \in Strategies : st.rolling_window = 3
                        /\ st.z_entry_threshold = 9 /\ st.z_exit_threshold = 5}
    /\ df_zscore = <<>>
    /\ signals = <<>>
    /\ pair_info = <<>>
    /\ vol_y = <<>>
    /\ rolling_mean = <<>>
    /\ rolling_var = <<>>
    /\ backtester = DefaultBacktester
    /\ pc = "idle"
    /\ RunNotStarted
    /\ NoCalls
    /\ NoScheduler
    /\ param_grid = <<>>
    /\ opt_pc = "off"
    /\ combo_idx = 0
    /\ grid_results = <<>>
    /\ table = <<>>

scanFrame == <<signals, pair_info, vol_y, rolling_mean, rolling_var, btLocals,
               callVars, param_grid, opt_pc, combo_idx, grid_results, table,
               backtester, genVars, fetched, stats, schedVars>>

\* lines 47-54; load_data (lines 37-40) when the matrix is empty
StartScan ==
    /\ strat_pc = "idle"
    /\ IF IsEmpty(data)
       THEN /\ data' = fetched.data
            /\ keys' = fetched.keys
            /\ logged' = IsEmpty(fetched.data)
       ELSE UNCHANGED <<data, keys, logged>>
    /\ pairs' = <<>>
    /\ scan_i' = 1
    /\ scan_j' = 2
    /\ strat_pc' = "scanning"
    /\ UNCHANGED <<scanFrame, cointegrated_pairs, evaluated>>

\* lines 56-57: (scan_i, scan_j) is a turn of the two loops
InLoops == scan_i < scan_j /\ scan_j <= Len(keys)

\* lines 58-78: one pair of columns
ScanPair ==
    /\ strat_pc = "scanning"
    /\ InLoops
    /\ LET found == stats[<<scan_i, scan_j>>]
           coint == check_cointegration(found)
           half_life == calculate_half_life(found)
       IN pairs' = IF coint.is_coint /\ HalfLifeInRange(half_life)
                   THEN Append(pairs, PairInfo(scan_i, scan_j, coint, half_life))
                   ELSE pairs
    /\ evaluated' = Append(evaluated, <<scan_i, scan_j>>)
    /\ IF scan_j < Len(keys)
       THEN scan_j' = scan_j + 1 /\ scan_i' = scan_i
       ELSE scan_i' = scan_i + 1 /\ scan_j' = scan_i + 2
    /\ UNCHANGED <<scanFrame, data, keys, logged, cointegrated_pairs, strat_pc>>

\* lines 80-82, an empty list leaving the strategy's earlier list in place
ReturnPairsKeepsOld ==
    /\ strat_pc = "scanning"
    /\ ~InLoops
    /\ cointegrated_pairs' = IF pairs = <<>> THEN cointegrated_pairs ELSE pairs
    /\ strat_pc' = "returned"
    /\ UNCHANGED <<scanFrame, data, keys, logged, pairs, scan_i, scan_j,
                   evaluated>>

\* lines 80-82: the list is assigned to the strategy and returned
ReturnPairs ==
    /\ strat_pc = "scanning"
    /\ ~InLoops
    /\ cointegrated_pairs' = pairs
    /\ strat_pc' = "returned"
    /\ UNCHANGED <<scanFrame, data, keys, logged, pairs, scan_i, scan_j,
                   evaluated>>

NextScan == StartScan \/ ScanPair \/ ReturnPairs

SpecScan == InitScan /\ [][NextScan]_vars

----------------------------------------------------------------------------
(* execution/scheduler.py: a Scheduler over a strategy, a trader and a     *)
(* list of pairs.  start() and stop() are called from the threads Callers, *)
(* each statement of theirs that reads or writes self.running or           *)
(* self.thread is a step of its own; every Thread object start() creates   *)
(* runs _run_loop, one turn of which checks self.running, runs _job and    *)
(* sleeps.                                                                  *)

\* Thread objects the calls of start() may create
MaxThreads == 2
\* calls of _job
MaxScans == 2

Callers == {"main", "other"}
Threads == 1..MaxThreads

\* dates of the matrix load_data fetches, and the strategy's window over it
LiveDates == MaxLen + 3
LiveStrategy ==
    [rolling_window |-> LiveDates, z_entry_threshold |-> 20,
     z_exit_threshold |-> 5]
LivePair == [y |-> "Y", x |-> "X", hedge_ratio |-> 1]

\* what DataManager.fetch_data may return to a scan: the spread jumps up or
\* down on the last date, moves within its band, or nothing was fetched
LiveKinds == {"up", "down", "calm", "empty"}
LiveData(kind) ==
    IF kind = "empty" THEN <<>>
    ELSE [sym \in {"Y", "X"} |->
            Series([t \in 1..LiveDates |->
                IF sym = "X" THEN 50
                ELSE IF kind = "calm" THEN 100 + (t % 2)
                ELSE IF t < LiveDates THEN 100
                ELSE IF kind = "up" THEN 110 ELSE 90])]

\* lines 72, 93, 98: the threshold 2.0 in 1/ZScale
signal_threshold == 20
\* line 82
target_exposure == 10000

Order(symbol, side, qty) ==
    [symbol |-> symbol, side |-> side, qty |-> qty, scan |-> scans + 1]

\* lines 69-70: df['zscore'].iloc[-1] of analyze_pair(pair)
LastZ(d, pair) ==
    LET df == generate_signals(d, pair, strategy.rolling_window,
                               strategy.z_entry_threshold,
                               strategy.z_exit_threshold)
    IN df.zscore[Len(df.zscore)]

\* lines 67-103: the body of the loop over self.pairs for one pair, as the
\* orders it submits; a matrix without the pair's columns raises in
\* analyze_pair and the except of line 102 goes on to the next pair
OrdersOfPair(d, pair) ==
    IF IsEmpty(d) THEN <<>>
    ELSE LET last_z == LastZ(d, pair)
             price_y == d[pair.y][Len(d[pair.y])]
             price_x == d[pair.x][Len(d[pair.x])]
             qty_y == target_exposure \div price_y
             qty_x == (target_exposure * pair.hedge_ratio) \div price_x
         IN IF IsNa(last_z) \/ ~(Abs(last_z) > signal_threshold) THEN <<>>
            ELSE IF trader = "None" THEN <<>>
            ELSE IF last_z < -signal_threshold
            THEN <<Order(pair.y, "buy", qty_y), Order(pair.x, "sell", qty_x)>>
            ELSE <<Order(pair.y, "sell", qty_y), Order(pair.x, "buy", qty_x)>>

RECURSIVE OrdersOfPairs(_, _)
OrdersOfPairs(d, ps) ==
    IF ps = <<>> THEN <<>>
    ELSE OrdersOfPair(d, Head(ps)) \o OrdersOfPairs(d, Tail(ps))

InitScheduler ==
    /\ running = FALSE
    /\ thread = 0
    /\ sched_pairs \in {<<>>, <<LivePair>>}
    /\ trader \in {"None", "AlpacaExecutor"}
    /\ loop_pc = [t \in Threads |-> "none"]
    /\ caller_pc = [c \in Callers |-> "idle"]
    /\ join_target = [c \in Callers |-> 0]
    /\ scans = 0
    /\ orders = <<>>
    /\ sched_log = {}
    /\ strategy = LiveStrategy
    /\ data = <<>>
    /\ strat_pc = "idle"
    /\ df_zscore = <<>>
    /\ NoScan
    /\ signals = <<>>
    /\ pair_info = <<>>
    /\ vol_y = <<>>
    /\ rolling_mean = <<>>
    /\ rolling_var = <<>>
    /\ backtester = DefaultBacktester
    /\ pc = "idle"
    /\ RunNotStarted
    /\ NoCalls
    /\ NoGridSearch

schedFrame == <<signals, pair_info, vol_y, rolling_mean, rolling_var, btLocals,
                callVars, gridVars, backtester, stratVars, sched_pairs,
                trader>>

Created == Cardinality({t \in Threads : loop_pc[t] # "none"})
Starting ==
    Cardinality({c \in Callers :
                    caller_pc[c] \in {"start_set", "start_create"}})

\* lines 19-21: the check of self.running
StartCheck(c) ==
    /\ caller_pc[c] = "idle"
    /\ Created + Starting < MaxThreads
    /\ IF running
       THEN /\ sched_log' = sched_log \cup {"Scheduler already running."}
            /\ UNCHANGED caller_pc
       ELSE /\ caller_pc' = [caller_pc EXCEPT ![c] = "start_set"]
            /\ UNCHANGED sched_log
    /\ UNCHANGED <<schedFrame, data, running, thread, loop_pc, join_target,
                   scans, orders>>

\* line 23
StartSet(c) ==
    /\ caller_pc[c] = "start_set"
    /\ running' = TRUE
    /\ caller_pc' = [caller_pc EXCEPT ![c] = "start_create"]
    /\ UNCHANGED <<schedFrame, data, thread, loop_pc, join_target, scans,
                   orders, sched_log>>

\* line 24: a new Thread object is stored in self.thread
StartCreate(c) ==
    /\ caller_pc[c] = "start_create"
    /\ thread' = Created + 1
    /\ loop_pc' = [loop_pc EXCEPT ![thread'] = "created"]
    /\ caller_pc' = [caller_pc EXCEPT ![c] = "start_thread"]
    /\ UNCHANGED <<schedFrame, data, running, join_target, scans, orders,
                   sched_log>>

\* line 25: self.thread is read again and started; Thread.start raises
\* RuntimeError for a thread that was started before
StartThread(c) ==
    /\ caller_pc[c] = "start_thread"
    /\ IF loop_pc[thread] = "created"
       THEN /\ loop_pc' = [loop_pc EXCEPT ![thread] = "top"]
            /\ UNCHANGED sched_log
       ELSE /\ sched_log' = sched_log \cup {"RuntimeError: start"}
            /\ UNCHANGED loop_pc
    /\ caller_pc' = [caller_pc EXCEPT ![c] = "idle"]
    /\ UNCHANGED <<schedFrame, data, running, thread, join_target, scans,
                   orders>>

\* line 29
StopClear(c) ==
    /\ caller_pc[c] = "idle"
    /\ running' = FALSE
    /\ caller_pc' = [caller_pc EXCEPT ![c] = "stop_test"]
    /\ UNCHANGED <<schedFrame, data, thread, loop_pc, join_target, scans,
                   orders, sched_log>>

\* line 30
StopTest(c) ==
    /\ caller_pc[c] = "stop_test"
    /\ caller_pc' = [caller_pc EXCEPT ![c] =
                        IF thread = 0 THEN "idle" ELSE "stop_join"]
    /\ UNCHANGED <<schedFrame, data, running, thread, loop_pc, join_target,
                   scans, orders, sched_log>>

\* line 31: self.thread is read again and joined; Thread.join raises
\* RuntimeError for a thread that was not started
StopJoin(c) ==
    /\ caller_pc[c] = "stop_join"
    /\ IF loop_pc[thread] = "created"
       THEN /\ sched_log' = sched_log \cup {"RuntimeError: join"}
            /\ caller_pc' = [caller_pc EXCEPT ![c] = "idle"]
            /\ UNCHANGED join_target
       ELSE /\ join_target' = [join_target EXCEPT ![c] = thread]
            /\ caller_pc' = [caller_pc EXCEPT ![c] = "stop_wait"]
            /\ UNCHANGED sched_log
    /\ UNCHANGED <<schedFrame, data, running, thread, loop_pc, scans, orders>>

\* line 31: join returns when the thread joined has ended
StopJoined(c) ==
    /\ caller_pc[c] = "stop_wait"
    /\ loop_pc[join_target[c]] = "exited"
    /\ caller_pc' = [caller_pc EXCEPT ![c] = "idle"]
    /\ join_target' = [join_target EXCEPT ![c] = 0]
    /\ UNCHANGED <<schedFrame, data, running, thread, loop_pc, scans, orders,
                   sched_log>>

\* line 35: the while condition
LoopCheck(t) ==
    /\ loop_pc[t] = "top"
    /\ loop_pc' = [loop_pc EXCEPT ![t] = IF running THEN "job" ELSE "exited"]
    /\ UNCHANGED <<schedFrame, data, running, thread, caller_pc, join_target,
                   scans, orders, sched_log>>

\* lines 36-50 up to the sleep: _job (lines 52-105) with what load_data
\* fetched
LoopJob(t) ==
    /\ loop_pc[t] = "job"
    /\ scans < MaxScans
    /\ \E kind \in LiveKinds : data' = LiveData(kind)
    /\ IF sched_pairs = <<>>
       THEN /\ sched_log' = sched_log \cup {"No pairs to scan."}
            /\ UNCHANGED orders
       ELSE /\ orders' = orders \o OrdersOfPairs(data', sched_pairs)
            /\ sched_log' = IF IsEmpty(data')
                            THEN sched_log \cup {"Error scanning pair"}
                            ELSE sched_log
    /\ scans' = scans + 1
    /\ loop_pc' = [loop_pc EXCEPT ![t] = "sleep"]
    /\ UNCHANGED <<schedFrame, running, thread, caller_pc, join_target>>

\* lines 46, 50: the sleep ends
LoopWake(t) ==
    /\ loop_pc[t] = "sleep"
    /\ loop_pc' = [loop_pc EXCEPT ![t] = "top"]
    /\ UNCHANGED <<schedFrame, data, running, thread, caller_pc, join_target,
                   scans, orders, sched_log>>

NextScheduler ==
    \/ \E c \in Callers :
          \/ StartCheck(c)
          \/ StartSet(c)
          \/ StartCreate(c)
          \/ StartThread(c)
          \/ StopClear(c)
          \/ StopTest(c)
          \/ StopJoin(c)
          \/ StopJoined(c)
    \/ \E t \in Threads :
          \/ LoopCheck(t)
          \/ LoopJob(t)
          \/ LoopWake(t)

SpecScheduler == InitScheduler /\ [][NextScheduler]_vars

----------------------------------------------------------------------------
(* The three stages side by side: a run of run_backtest, a grid search or a *)
(* call of generate_signals, each from its own initial states               *)

InitStages == Init \/ InitGrid \/ InitSignals

NextStages == Next \/ NextGrid \/ NextSignals

SpecStages == InitStages /\ [][NextStages]_vars

----------------------------------------------------------------------------
(* Claims about Backtester.run_backtest *)

Dates == 1..Len(signals)
TypeOf(sign) == IF sign = 1 THEN "Long" ELSE "Short"

\* the raw value of the latest date at or before t that is not HOLD, 0 if none
MostRecentRaw(sig, t) ==
    LET named == {k \in 1..t : ~IsNa(sig[k])}
    IN IF named = {} THEN 0
       ELSE sig[CHOOSE k \in named : \A j \in named : j <= k]

\* C1: before the lag, the position of every date is the most recent raw
\* signal that is not HOLD at or before that date (0 if there is none), and
\* lies in {-1, 0, +1}.
C1_LatchIsMostRecentRaw ==
    pc \in {"latched", "sized"} =>
        /\ Len(positions) = Len(signals)
        /\ \A t \in Dates : /\ positions[t] = MostRecentRaw(signals, t)
                            /\ positions[t] \in {-1, 0, 1}

\* C1 witness: the series [+1,HOLD,HOLD,0,-1,HOLD,0] latched to
\* [+1,+1,+1,0,-1,-1,0].
C1_Witness ==
    /\ pc = "latched"
    /\ signals = <<1, NaN, NaN, 0, -1, NaN, 0>>
    /\ positions = <<1, 1, 1, 0, -1, -1, 0>>

\* C3: the lag of lines 166-170 turns the latched positions and the sizes into
\* the same sequences moved one date later, with position 0 and size 1.0 on
\* the first date, so the sized position of the first date is 0; the positions
\* returned are these lagged positions.
C3_LagShiftsByOne ==
    [][/\ pc = "sized" =>
            /\ Len(positions') = Len(positions)
            /\ positions'[1] = 0
            /\ position_sizes'[1] = SizeScale
            /\ final_positions'[1] = 0
            /\ \A t \in 2..Len(positions) :
                    /\ positions'[t] = positions[t - 1]
                    /\ position_sizes'[t] = position_sizes[t - 1]
       /\ pc = "lagged" => positions' = positions]_vars

\* C3 witness: a returned run whose latched position of the first date was
\* nonzero and appears on the second date, after a first date of position 0
\* and size 1.0.
C3_Witness ==
    /\ pc = "done"
    /\ Len(signals) >= 2
    /\ signals[1] = -1
    /\ positions[1] = 0
    /\ positions[2] = -1
    /\ position_sizes[1] = SizeScale
    /\ final_positions[1] = 0

\* the first dates of the maximal runs of equal nonzero positions
RunStarts(pos) ==
    {t \in 1..Len(pos) : pos[t] # 0 /\ (t = 1 \/ pos[t - 1] # pos[t])}

RecordsEntering(t) == {k \in 1..Len(trades_log) : trades_log[k].Entry = t}

\* C4: the ledger holds exactly one record per maximal run of equal nonzero
\* positions, entered on the run's first date with the run's direction, and
\* no other record.
C4_OneTradePerRun ==
    pc = "done" =>
        /\ Len(trades_log) = Cardinality(RunStarts(positions))
        /\ \A k \in 1..Len(trades_log) : trades_log[k].Entry \in RunStarts(positions)
        /\ \A t \in RunStarts(positions) :
              /\ Cardinality(RecordsEntering(t)) = 1
              /\ \A k \in RecordsEntering(t) :
                    trades_log[k].Type = TypeOf(positions[t])

\* C4 witness: the run on [+1,HOLD,HOLD,0,-1,HOLD,0] returned two records,
\* a Long and a Short, with flat dates in between.
C4_Witness ==
    /\ pc = "done"
    /\ signals = <<1, NaN, NaN, 0, -1, NaN, 0>>
    /\ Len(trades_log) = 2
    /\ trades_log[1].Type = "Long"
    /\ trades_log[2].Type = "Short"

FlipDates(pos) ==
    {t \in 2..Len(pos) : pos[t] # 0 /\ pos[t - 1] # 0 /\ pos[t] # pos[t - 1]}

\* C5: on every date where the position flips sign directly, one record of
\* the old direction exits on that date and the next record, of the new
\* direction, enters on that same date.
C5_FlipClosesAndOpensSameDate ==
    pc = "done" =>
        \A t \in FlipDates(positions) :
            \E k \in 1..(Len(trades_log) - 1) :
                /\ trades_log[k].Exit = t
                /\ trades_log[k].Type = TypeOf(positions[t - 1])
                /\ trades_log[k + 1].Entry = t
                /\ trades_log[k + 1].Type = TypeOf(positions[t])

\* C5 witness: the run on [+1,+1,-1,-1,0] returned two trades, the first
\* exiting on the date the second enters.
C5_Witness ==
    /\ pc = "done"
    /\ signals = <<1, 1, -1, -1, 0>>
    /\ FlipDates(positions) # {}
    /\ Len(trades_log) = 2
    /\ trades_log[1].Exit = trades_log[2].Entry

\* the first date after t whose position is 0 or of the other sign, else the
\* final date
CloseDate(pos, t) ==
    LET later == {u \in (t + 1)..Len(pos) : pos[u] # pos[t]}
    IN IF later = {} THEN Len(pos)
       ELSE CHOOSE u \in later : \A w \in later : u <= w

\* C6: every trade opened is in the returned ledger exactly once, exiting on
\* the first later date whose position is 0 or of the opposite sign, or on
\* the final date if there is none.
C6_EveryTradeClosedOnce ==
    pc = "done" =>
        \A t \in RunStarts(positions) :
            /\ Cardinality(RecordsEntering(t)) = 1
            /\ \A k \in RecordsEntering(t) :
                  trades_log[k].Exit = CloseDate(positions, t)

\* C6 witness: a trade opened on the final date was recorded with
\* Entry = Exit = final date.
C6_Witness ==
    /\ pc = "done"
    /\ Len(positions) \in RunStarts(positions)
    /\ Len(trades_log) >= 1
    /\ trades_log[Len(trades_log)].Entry = Len(positions)
    /\ trades_log[Len(trades_log)].Exit = Len(positions)

\* the underlying Kelly estimate rolling_mean / rolling_var is negative
NegativeDrift(t) ==
    /\ ~IsNa(rolling_mean[t]) /\ ~IsNa(rolling_var[t])
    /\ rolling_var[t] > 0
    /\ rolling_mean[t] < 0

\* C7: once sized, the multiplier of every date of negative drift is 0, and
\* the multiplier of every other date is the volatility sizer's value.
C7_KellyDriftFilter ==
    pc = "sized" =>
        \A t \in Dates :
            position_sizes[t] = IF NegativeDrift(t) THEN 0
                                ELSE calculate_target_position_size(vol_y[t])

\* the gross return of date t: the sized position times the spread return
GrossRet(t) == final_positions[t] * SpreadRet(data, pair_info)[t]

\* C15: once the costs are computed, the cost of the first date is 0, the
\* cost of every later date is the absolute change of the sized position
\* times the sum of the two rates, and the net return of every date is the
\* gross return minus the cost; so a date with an unchanged sized position
\* costs 0, and with both rates 0 the net return is the gross return.
C15_CostModel ==
    pc \in {"lagged", "done"} =>
        /\ total_costs[1] = 0
        /\ \A t \in 2..Len(signals) :
              /\ total_costs[t] =
                    Abs(final_positions[t] - final_positions[t - 1])
                        * (backtester.transaction_cost + backtester.spread_pct)
              /\ final_positions[t] = final_positions[t - 1] => total_costs[t] = 0
        /\ \A t \in Dates :
              /\ net_ret[t] = GrossRet(t) - total_costs[t]
              /\ (backtester.transaction_cost = 0 /\ backtester.spread_pct = 0)
                    => net_ret[t] = GrossRet(t)

\* C15 witness: a run with the default rates that paid a cost on a date where
\* the sized position changed and none on a date where a nonzero sized
\* position stayed.
C15_Witness ==
    /\ pc = "lagged"
    /\ backtester = DefaultBacktester
    /\ \E t \in 2..Len(signals) :
          total_costs[t] > 0 /\ net_ret[t] < GrossRet(t)
    /\ \E t \in 2..Len(signals) :
          /\ final_positions[t] = final_positions[t - 1]
          /\ final_positions[t] # 0
          /\ total_costs[t] = 0

\* the multiplier the volatility sizer names for a trailing volatility v
VolSize(v) ==
    IF ~IsNa(v) /\ v > 0
    THEN Min((target_vol * SizeScale) \div v, max_leverage * SizeScale)
    ELSE 0

\* values a trailing volatility, mean or variance may be handed over as
Degenerate == {0, NaN}

\* C16: once sized, the multiplier of every date is min(target_vol / vol,
\* max_leverage) for a volatility > 0 and 0 for a zero, negative or
\* undefined one, and lies in [0, max_leverage]; the Kelly estimate is 0
\* for a zero or undefined variance.
C16_VolSizerAndSentinels ==
    /\ \A v \in {-5, 0, NaN} : calculate_target_position_size(v) = 0
    /\ \A var \in Degenerate : \A m \in {-3, 0, 2, NaN} : KellySize(m, var) = 0
    /\ pc = "sized" =>
          \A t \in Dates :
              /\ position_sizes[t] = VolSize(vol_y[t])
              /\ position_sizes[t] >= 0
              /\ position_sizes[t] <= max_leverage * SizeScale
              /\ rolling_var[t] \in Degenerate =>
                    KellySize(rolling_mean[t], rolling_var[t]) = 0

\* C16 witness: a sized run with a date of undefined volatility, a date of
\* zero volatility, a date capped at max_leverage, a date sized below the
\* cap and a date of zero variance.
C16_Witness ==
    /\ pc = "sized"
    /\ \E t \in Dates : IsNa(vol_y[t]) /\ position_sizes[t] = 0
    /\ \E t \in Dates : vol_y[t] = 0 /\ position_sizes[t] = 0
    /\ \E t \in Dates : vol_y[t] > 0 /\ position_sizes[t] = max_leverage * SizeScale
    /\ \E t \in Dates : position_sizes[t] \in 1..(max_leverage * SizeScale - 1)
    /\ \E t \in Dates : rolling_var[t] = 0

\* the record closes a trade that was still open after the final date
ForceClosed(k) == k = Len(trades_log) /\ positions[Len(positions)] # 0

\* C22: the ledger returned is in order of entry and its trades do not
\* overlap: Entry <= Exit in every record, and of two consecutive records
\* the earlier exits no later than the later enters, on the same date exactly
\* when the earlier was closed by a direct flip of sign.
C22_LedgerChronological ==
    pc = "done" =>
        /\ \A k \in 1..Len(trades_log) : trades_log[k].Entry <= trades_log[k].Exit
        /\ \A k \in 1..(Len(trades_log) - 1) :
              /\ trades_log[k].Entry < trades_log[k + 1].Entry
              /\ trades_log[k].Exit <= trades_log[k + 1].Entry
              /\ trades_log[k].Exit = trades_log[k + 1].Entry
                    <=> trades_log[k].Exit \in FlipDates(positions)

\* C22 witness: a ledger of two trades, the first closed by a return to flat
\* before the date the second enters.
C22_Witness ==
    /\ pc = "done"
    /\ Len(trades_log) = 2
    /\ positions[trades_log[1].Exit] = 0
    /\ trades_log[1].Exit < trades_log[2].Entry

SumRange(s, a, b) == SumSeq(SubSeq(s, a, b))

RECURSIVE SumPnL(_)
SumPnL(log) == IF log = <<>> THEN 0 ELSE Head(log).PnL + SumPnL(Tail(log))

HeldDatesRet ==
    SumSeq([t \in 1..Len(positions) |->
                IF positions[t] # 0 THEN net_ret[t] ELSE 0])

\* C23: the PnL of a trade is the sum of the net return from its entry date
\* up to but not including its exit date when it was closed by a return to
\* flat or by a flip, and through the final date when it was still open at
\* the end; the PnLs of the ledger add up to the net return of the dates
\* with a nonzero position.
C23_TradePnL ==
    pc = "done" =>
        /\ \A k \in 1..Len(trades_log) :
              trades_log[k].PnL =
                  IF ForceClosed(k)
                  THEN SumRange(net_ret, trades_log[k].Entry, Len(positions))
                  ELSE SumRange(net_ret, trades_log[k].Entry,
                                trades_log[k].Exit - 1)
        /\ SumPnL(trades_log) = HeldDatesRet

\* C23 witness: a ledger with a trade closed by a return to flat on a date of
\* nonzero net return, which its PnL leaves out, and a trade still open at
\* the end.
C23_Witness ==
    /\ pc = "done"
    /\ Len(trades_log) = 2
    /\ positions[trades_log[1].Exit] = 0
    /\ net_ret[trades_log[1].Exit] # 0
    /\ trades_log[1].PnL # 0
    /\ ForceClosed(2)
    /\ trades_log[2].PnL # 0

----------------------------------------------------------------------------
(* Claims about the stages' inputs *)

\* C21: no step of run_backtest changes the signals, the pair or the price
\* matrix it was handed; no step of run_grid_search changes the pair, the
\* parameter grid or the price matrix; generate_signals changes neither the
\* price matrix nor the pair nor the strategy's settings.
C21_InputsUnchanged ==
    [][/\ pair_info' = pair_info
       /\ data' = data
       /\ param_grid' = param_grid
       /\ strategy' = strategy
       /\ backtester' = backtester
       /\ pc' # pc => signals' = signals]_vars

\* C21 witness: a run of run_backtest returned, its positions latched from a
\* raw series with HOLD dates that the series handed in still holds.
C21_Witness ==
    /\ pc = "done"
    /\ \E t \in Dates : IsNa(signals[t])
    /\ \E t \in Dates : positions[t] # 0
    /\ trades_log # <<>>

----------------------------------------------------------------------------
(* Claims about two calls of run_backtest *)

BothReturned == \A c \in Calls : results[c].returned

AgreeBefore(t) == \A u \in 1..(t - 1) : signals[u] = alt_signals[u]

\* what a call's result holds for date t
AtDate(c, t) ==
    LET r == results[c].value
    IN <<r.Positions[t], r.final_positions[t], r.total_costs[t], r.net_ret[t],
         r.Equity_Curve[t]>>

\* C2: when two raw series agree on every date before t, the two calls give
\* the same position, sized position, cost, net return and equity at date t;
\* series that differ on the final date only give the same result altogether.
C2_NoLookahead ==
    BothReturned =>
        /\ \A t \in Dates :
              AgreeBefore(t) => AtDate("first", t) = AtDate("second", t)
        /\ AgreeBefore(Len(signals)) =>
              results["first"].value = results["second"].value

\* C2 witness: two series that first differ on a date before the last, whose
\* results agree up to that date and differ on the next one.
C2_Witness ==
    /\ BothReturned
    /\ \E t \in 1..(Len(signals) - 1) :
          /\ AgreeBefore(t)
          /\ signals[t] # alt_signals[t]
          /\ \A u \in 1..t : AtDate("first", u) = AtDate("second", u)
          /\ AtDate("first", t + 1) # AtDate("second", t + 1)

----------------------------------------------------------------------------
(* Claims about Optimizer.run_grid_search *)

GridEnded == opt_pc \in {"returned", "raised"}
LastParams == Combinations(param_grid)[combo_idx]

\* C8: the raw series fed to the Backtest Engine for a combination is the
\* series generate_signals gives for the same pair, window, entry and exit
\* thresholds.
C8_GridSignalsAreGeneratorSignals ==
    (opt_pc \in {"loop", "returned"} /\ combo_idx >= 1) =>
        signals = generate_signals(data, pair_info, LastParams.window,
                                   LastParams.entry_z, LastParams.exit_z).signal_raw

\* the combinations whose evaluation raises
FailingCombos ==
    {k \in 1..Len(Combinations(param_grid)) :
        RollingRaises(Combinations(param_grid)[k].window)}

RowOf(k) ==
    LET p == Combinations(param_grid)[k]
    IN GridRow(p, RunBacktest(GridSignals(GridSpread, p), pair_info, data,
                              vol_y, rolling_mean, rolling_var))

\* C9: when the grid search of a pair with data has ended, it has returned a
\* table that holds the row of every combination whose evaluation does not
\* raise.
C9_FailureIsolation ==
    (GridEnded /\ HasColumns /\ FailingCombos # {}
               /\ FailingCombos # 1..Len(Combinations(param_grid))) =>
        /\ opt_pc = "returned"
        /\ \A k \in 1..Len(Combinations(param_grid)) \ FailingCombos :
              \E i \in 1..Len(table) : table[i] = RowOf(k)

\* C10: when the grid search of a pair with data has ended and no combination
\* raised, it has returned a table with one row per element of the product
\* of the value lists, an empty table for an empty product.
C10_RowCountIsProduct ==
    (GridEnded /\ HasColumns /\ FailingCombos = {}) =>
        /\ opt_pc = "returned"
        /\ Len(table) = Len(param_grid.window) * Len(param_grid.entry_z)
                            * Len(param_grid.exit_z)

\* C11: the table run_grid_search returned is ordered by non-increasing
\* Sharpe: of every two consecutive rows the earlier has a Sharpe greater
\* than or equal to the later's.
C11_TableSortedBySharpe ==
    opt_pc = "returned" =>
        \A i \in 1..(Len(table) - 1) : table[i].Sharpe >= table[i + 1].Sharpe

\* C11 witness: a returned table of rows with different Sharpe that the loop
\* had appended in another order.
C11_Witness ==
    /\ opt_pc = "returned"
    /\ Len(table) >= 2
    /\ table # grid_results
    /\ table[1].Sharpe > table[Len(table)].Sharpe

\* C12: when a symbol of the pair is not a column of the price matrix, the
\* grid search ends by returning an empty table, having logged the condition,
\* gone through no combination and run no backtest.
C12_MissingSymbolsEmptyTable ==
    (opt_pc # "idle" /\ ~HasColumns) =>
        /\ opt_pc = "returned"
        /\ table = <<>>
        /\ logged
        /\ combo_idx = 0
        /\ grid_results = <<>>
        /\ signals = <<>>

\* C12 witness: a grid with a nonempty product returned for a pair whose y
\* symbol is missing.
C12_Witness ==
    /\ opt_pc = "returned"
    /\ pair_info.y \notin DOMAIN data
    /\ Combinations(param_grid) # <<>>
    /\ logged
    /\ table = <<>>

\* the history of the pair, in dates
History == Len(data[pair_info.y])
Oversized(row) == row.window > History
Fits(row) == ~Oversized(row)

\* the grid without the windows larger than the history
GridWithoutOversized ==
    [param_grid EXCEPT !.window = SelectSeq(@, LAMBDA w : w <= History)]

\* the rows of the combinations of a grid, each computed on its own
RowsOfGrid(grid) ==
    {GridRow(Combinations(grid)[k],
             RunBacktest(GridSignals(GridSpread, Combinations(grid)[k]),
                         pair_info, data, vol_y, rolling_mean, rolling_var)) :
        k \in 1..Len(Combinations(grid))}

TableRows(keep(_)) == {table[i] : i \in {k \in 1..Len(table) : keep(table[k])}}

\* C19: a grid search over a grid with windows larger than the history (and
\* no combination that raises) returns a table with one row per combination;
\* the rows of the oversized windows have Sharpe 0, Return 0 and Trades 0,
\* and the other rows are the rows of the grid without those windows.
C19_OversizedWindowDegenerateRow ==
    (GridEnded /\ HasColumns /\ FailingCombos = {}
        /\ \E k \in 1..Len(Combinations(param_grid)) :
               Oversized(Combinations(param_grid)[k])) =>
        /\ opt_pc = "returned"
        /\ Len(table) = Len(Combinations(param_grid))
        /\ \A i \in 1..Len(table) :
              Oversized(table[i]) =>
                  table[i].Sharpe = 0 /\ table[i].Return = 0 /\ table[i].Trades = 0
        /\ \A k \in 1..Len(Combinations(param_grid)) :
              \E i \in 1..Len(table) :
                  /\ table[i].window = Combinations(param_grid)[k].window
                  /\ table[i].entry_z = Combinations(param_grid)[k].entry_z
                  /\ table[i].exit_z = Combinations(param_grid)[k].exit_z
        /\ TableRows(Fits) = RowsOfGrid(GridWithoutOversized)

\* C19 witness: a returned table with the degenerate row of an oversized
\* window evaluated before a window that fits, whose row has trades.
C19_Witness ==
    /\ opt_pc = "returned"
    /\ Len(grid_results) >= 2
    /\ Oversized(grid_results[1])
    /\ grid_results[1].Trades = 0
    /\ \E i \in 1..Len(table) :
          Fits(table[i]) /\ table[i].Trades > 0 /\ table[i].Sharpe # 0

----------------------------------------------------------------------------
(* Claims about StatArbStrategy.generate_signals *)

LongEntry(z) == ~IsNa(z) /\ z < -strategy.z_entry_threshold
ShortEntry(z) == ~IsNa(z) /\ z > strategy.z_entry_threshold
ExitCond(z) == ~IsNa(z) /\ Abs(z) < strategy.z_exit_threshold

\* the spread of the pair, and whether its trailing window at t is constant
PairSpread == calculate_spread(data[pair_info.y], data[pair_info.x],
                               pair_info.hedge_ratio)
FlatWindow(t) ==
    /\ t >= strategy.rolling_window
    /\ \A u \in (t - strategy.rolling_window + 1)..t : PairSpread[u] = PairSpread[t]

\* C13: with entry threshold > exit threshold >= 0, every date has the one
\* raw signal its z-score names: +1 below -entry, -1 above +entry, 0 inside
\* the exit band, HOLD otherwise and when the z-score is undefined, as it is
\* on the first window-1 dates and over a constant trailing window; no two of
\* the three conditions hold on one date.
C13_SignalFromZscore ==
    (strat_pc = "generated"
        /\ strategy.z_entry_threshold > strategy.z_exit_threshold
        /\ strategy.z_exit_threshold >= 0) =>
        /\ Len(signals) = Len(data[pair_info.y])
        /\ Len(df_zscore) = Len(signals)
        /\ \A t \in 1..Len(signals) :
             LET z == df_zscore[t]
             IN /\ signals[t] = IF LongEntry(z) THEN 1
                                ELSE IF ShortEntry(z) THEN -1
                                ELSE IF ExitCond(z) THEN 0
                                ELSE NaN
                /\ ~(LongEntry(z) /\ ShortEntry(z))
                /\ ~(LongEntry(z) /\ ExitCond(z))
                /\ ~(ShortEntry(z) /\ ExitCond(z))
                /\ (t < strategy.rolling_window \/ FlatWindow(t)) =>
                        (IsNa(z) /\ IsNa(signals[t]))

\* C13 witness: a series generated with entry above exit that holds +1, -1,
\* 0, a HOLD on a date with a z-score between the bands and a HOLD on a date
\* without z-score.
C13_Witness ==
    /\ strat_pc = "generated"
    /\ strategy.z_entry_threshold > strategy.z_exit_threshold
    /\ \A v \in {1, -1, 0} : \E t \in 1..Len(signals) : signals[t] = v
    /\ \E t \in 1..Len(signals) : IsNa(signals[t]) /\ ~IsNa(df_zscore[t])
    /\ \E t \in 1..Len(signals) : IsNa(df_zscore[t])

\* C14: on a date whose z-score meets an entry condition and the exit
\* condition at once, the entry condition wins: the raw signal is +1 for a
\* long entry and -1 for a short entry, not 0.
C14_EntryBeforeExit ==
    strat_pc = "generated" =>
        \A t \in 1..Len(signals) :
            LET z == df_zscore[t]
            IN /\ (LongEntry(z) /\ ExitCond(z)) => signals[t] = 1
               /\ (ShortEntry(z) /\ ExitCond(z)) => signals[t] = -1

----------------------------------------------------------------------------
(* Claims about StatArbStrategy.find_cointegrated_pairs *)

\* the pairs of columns that pass both filters
Passing ==
    {ij \in ColumnPairs(Len(keys)) :
        /\ stats[ij].p_value < 5
        /\ stats[ij].beta < 0
        /\ ~IsNa(stats[ij].hl)
        /\ stats[ij].hl >= min_half_life
        /\ stats[ij].hl <= max_half_life}

\* the pair of columns a candidate names
ColumnsOf(cand) ==
    CHOOSE ij \in (1..Len(keys)) \X (1..Len(keys)) :
        keys[ij[1]] = cand.x /\ keys[ij[2]] = cand.y

RowMajorBefore(a, b) == a[1] < b[1] \/ (a[1] = b[1] /\ a[2] < b[2])

\* C17: the list returned holds one candidate for every pair of columns
\* (i, j), i < j, that passes both filters, with y = column j and x =
\* column i, and no other candidate, in row-major order of (i, j); every
\* pair of columns was evaluated once.
C17_ExactlyThePassingPairs ==
    strat_pc = "returned" =>
        /\ Len(cointegrated_pairs) = Cardinality(Passing)
        /\ \A k \in 1..Len(cointegrated_pairs) :
              /\ ColumnsOf(cointegrated_pairs[k]) \in Passing
              /\ cointegrated_pairs[k].half_life # Inf
        /\ \A k \in 1..(Len(cointegrated_pairs) - 1) :
              RowMajorBefore(ColumnsOf(cointegrated_pairs[k]),
                             ColumnsOf(cointegrated_pairs[k + 1]))
        /\ Len(evaluated) = Cardinality(ColumnPairs(Len(keys)))
        /\ cointegrated_pairs = pairs

\* C17 witness: a scan of at least three columns returned two candidates or
\* more, having dropped a pair that is not cointegrated, a cointegrated pair
\* of the +infinity half-life and a cointegrated pair of a half-life beyond
\* the upper bound.
C17_Witness ==
    /\ strat_pc = "returned"
    /\ Len(keys) >= 3
    /\ Len(cointegrated_pairs) >= 2
    /\ \E ij \in ColumnPairs(Len(keys)) : stats[ij].p_value >= 5
    /\ \E ij \in ColumnPairs(Len(keys)) :
          stats[ij].p_value < 5 /\ stats[ij].beta >= 0
    /\ \E ij \in ColumnPairs(Len(keys)) :
          stats[ij].p_value < 5 /\ stats[ij].beta < 0
              /\ stats[ij].hl > max_half_life

\* C18: a scan whose price matrix is empty, also after the load attempt, or
\* has fewer than 2 columns evaluates no pair and returns an empty list.
C18_EmptyMatrixEmptyList ==
    (strat_pc \in {"scanning", "returned"}
        /\ (IsEmpty(data) \/ Len(keys) < 2)) =>
        /\ evaluated = <<>>
        /\ pairs = <<>>
        /\ ~InLoops
        /\ strat_pc = "returned" => cointegrated_pairs = <<>>

\* C18 witness: a scan loaded an empty price matrix, logged it, evaluated no
\* pair and returned an empty list.
C18_Witness ==
    /\ strat_pc = "returned"
    /\ IsEmpty(data)
    /\ logged
    /\ evaluated = <<>>
    /\ cointegrated_pairs = <<>>

----------------------------------------------------------------------------
(* Claims about the grid search and the exit threshold *)

----------------------------------------------------------------------------
(* Claims about the Scheduler *)

\* the Thread objects whose _run_loop is under way
LoopsRunning == {t \in DOMAIN loop_pc : loop_pc[t] \in {"top", "job", "sleep"}}

\* C25: however the calls of start() and stop() interleave, at most one
\* thread is executing _run_loop at any time.
C25_AtMostOneLoop == Cardinality(LoopsRunning) <= 1

\* C26: once a scan has submitted the entry orders of a pair, no later scan
\* submits orders of the same side for that pair again.
C26_NoOrderSpam ==
    \A i, j \in 1..Len(orders) :
        (orders[i].scan < orders[j].scan
            /\ orders[i].symbol = orders[j].symbol)
            => orders[i].side # orders[j].side

====
